---- MODULE Spec2Model ----
(***************************************************************************)
(* State-machine model of the Hack Academy subscription backend:           *)
(*   webhook_server.py  - the NOWPayments IPN webhook (Flask)               *)
(*   telegram_bot.py    - the Telegram bot and its in-memory scheduler      *)
(*   bot_manager.py     - the operator's command line                       *)
(* The three run as separate processes over one MongoDB database (users,    *)
(* payments) and one Telegram API (channel membership).                     *)
(*                                                                         *)
(* Time is counted in days.  A string is a sequence of indivisible atoms,   *)
(* "_" being the separator atom, so that str.split('_') and int() are       *)
(* computed and not assumed.  An HMAC digest is the symbolic term of its    *)
(* key and its message.                                                    *)
(***************************************************************************)
EXTENDS Integers, Sequences, FiniteSets, TLC

\* ------------------------------------------------------------------ bounds

\* Number of clock advances in a behaviour.
MaxTicks == 2
\* Number of runs of the manager's extend command in a behaviour.
MaxExtends == 1
\* Number of invoices the payment gateway issues (payment ids 1..MaxPayments).
MaxPayments == 1
\* Number of webhook requests handled at the same time (Flask worker slots).
NumHandlers == 2

\* ------------------------------------------------------- program constants

\* timedelta(days=30): the validity window of a paid subscription.
SubscriptionDays == 30

\* Python's None where a text is expected: an unset environment variable, a
\* missing text field of a document.
None == "None"
\* None where a timestamp text, a stored payload or a header is expected.
NoneVal == [none |-> TRUE]
\* find_one() of a key with no document.
NoDoc == [exists |-> FALSE]

\* The keys of the plans dictionary.
Plans == {"beginner", "mid", "complete"}

\* plans[plan]['price'], in cents.
Price(plan) ==
    CASE plan = "beginner" -> 1799
      [] plan = "mid"      -> 2499
      [] plan = "complete" -> 1999

\* plans[plan]['channel']: the key into the channels dictionary.
PlanChannel(plan) == plan

\* The payment statuses that payment_webhook treats as a completed payment.
SuccessStatuses == {"finished", "confirmed"}

\* ------------------------------------------------------------- input sets

\* Telegram user ids that appear in requests, and the ones that talk to the
\* bot.
UserIds == {1, 2}
Chatters == {1}
\* update.effective_user.username or "Unknown".
Username(u) == IF u = 1 THEN "alice" ELSE "Unknown"

PaymentIds == 1..MaxPayments
Handlers == 1..NumHandlers

\* The lengths by which the clock advances.
TickDays == {SubscriptionDays + 1}
\* --days of the extend command.
ExtendDays == {10}

\* payment_status strings the gateway sends.
Statuses == {"waiting", "confirmed", "finished", "failed"}

\* The secret shared with the gateway, and a key that is not it.
IpnSecret == "ipn-secret"
ForgedKey == "forged-key"

\* ---------------------------------------------------------------- strings

\* str(user_id) for the ids in use, and its inverse int(); int() of anything
\* else raises ValueError.
Digits == <<"1", "2">>
StrOfInt(n) == Digits[n]
IsIntStr(part) == Len(part) = 1 /\ \E i \in 1..Len(Digits) : Digits[i] = part[1]
IntOfStr(part) == CHOOSE i \in 1..Len(Digits) : Digits[i] = part[1]

\* s.split('_'): the maximal runs of atoms between separators, empty runs
\* included.
RECURSIVE SplitFrom(_, _, _, _)
SplitFrom(s, i, cur, acc) ==
    IF i > Len(s) THEN Append(acc, cur)
    ELSE IF s[i] = "_" THEN SplitFrom(s, i + 1, <<>>, Append(acc, cur))
    ELSE SplitFrom(s, i + 1, Append(cur, s[i]), acc)

Split(s) == SplitFrom(s, 1, <<>>, <<>>)

\* The text of one part: its atom, "" for the empty part.
PartText(part) == IF Len(part) = 1 THEN part[1] ELSE ""

\* f"hack_academy_{user_id}_{plan}_{int(datetime.now().timestamp())}"
MakeOrderId(u, plan) ==
    <<"hack", "_", "academy", "_", StrOfInt(u), "_", plan, "_", "ts">>

\* The order-id parsing of payment_webhook.  parts[0], parts[1], ... of the
\* source are parts[1], parts[2], ... here.
ParseOrderId(order_id) ==
    LET parts == Split(order_id) IN
    IF Len(parts) >= 4 /\ parts[1] = <<"hack">> /\ parts[2] = <<"academy">>
    THEN IF IsIntStr(parts[3])
         THEN [ok |-> TRUE, user_id |-> IntOfStr(parts[3]),
               plan |-> PartText(parts[4])]
         ELSE [ok |-> FALSE, error |-> "Error parsing order_id"]
    ELSE [ok |-> FALSE, error |-> "Invalid order_id format"]

\* order_id values of webhook bodies: the ones create_nowpayments_payment
\* makes, and one of each malformed kind (unknown plan, user id that is no
\* number, wrong prefix, too few parts, missing or empty).
WellFormedOrderIds == { MakeOrderId(1, "beginner"), MakeOrderId(2, "mid") }
MalformedOrderIds ==
    { <<"hack", "_", "academy", "_", "1", "_", "gold", "_", "ts">>,
      <<"hack", "_", "academy", "_", "abc", "_", "mid", "_", "ts">>,
      <<"shop", "_", "academy", "_", "1", "_", "mid", "_", "ts">>,
      <<"hack", "_", "academy", "_", "1">>,
      <<>> }

\* ------------------------------------------------------------- timestamps

\* datetime.isoformat() and datetime.fromisoformat(): the stored text of a
\* timestamp and the timestamp it reads back as.
isoformat(t) == [iso |-> t]
fromisoformat(s) == s.iso
\* MongoDB's $lt on two stored ISO texts of one layout: text order is time
\* order.
IsoLt(a, b) == a.iso < b.iso

\* ------------------------------------------------------------- signatures

\* hmac.new(key, data, hashlib.sha512).hexdigest()
HmacSha512(key, data) == [hmac |-> key, over |-> data]

\* A header that is text of non-ASCII characters, on which
\* hmac.compare_digest raises TypeError.
MalformedSig == [malformed |-> TRUE]

\* A check of the signature that forgets the key: any digest of the body
\* passes.
verify_ipn_signature_unkeyed(secret_key, data, signature) ==
    signature # MalformedSig /\ signature.over = data

\* A check of the signature that lets everything pass when the secret is
\* not set.
verify_ipn_signature_open(secret_key, data, signature) ==
    IF secret_key = None THEN TRUE
    ELSE IF signature = MalformedSig THEN FALSE
    ELSE signature = HmacSha512(secret_key, data)

\* verify_ipn_signature: os.getenv('IPN_SECRET_KEY') is None when unset, and
\* None.encode() raises; compare_digest raises on a malformed signature;
\* every exception is caught and gives False.
verify_ipn_signature(secret_key, data, signature) ==
    IF secret_key = None THEN FALSE
    ELSE IF signature = MalformedSig THEN FALSE
    ELSE signature = HmacSha512(secret_key, data)

\* The x-nowpayments-sig header: absent, empty, or a digest.
EmptySig == [empty |-> TRUE]
\* `not signature`
NoSignature(signature) == signature \in {NoneVal, EmptySig}

\* ----------------------------------------------------------- webhook input

\* A request body that is JSON with the three keys the handler reads (a
\* missing order_id and an empty one are the same to `not order_id`, both
\* are <<>> here), and one that is not JSON.
JsonBody(payment_id, payment_status, order_id) ==
    [json |-> TRUE, payment_id |-> payment_id, payment_status |-> payment_status,
     order_id |-> order_id]
JunkBody ==
    [json |-> FALSE, payment_id |-> 0, payment_status |-> None, order_id |-> <<>>]

\* The body of a confirmation of payment 1 as the gateway sends it for an
\* invoice of user 1 for the beginner plan.
ProbeBody == JsonBody(1, "confirmed", MakeOrderId(1, "beginner"))

\* The bodies the gateway signs: every status of payment 1 with each
\* well-formed order id, a confirmation of a payment id that was never
\* issued, a confirmation of payment 1 with each malformed order id, and the
\* body that is not JSON.
SignedBodies ==
    { JsonBody(1, st, o) : st \in Statuses, o \in WellFormedOrderIds }
    \cup { JsonBody(MaxPayments + 1, "confirmed", MakeOrderId(1, "beginner")) }
    \cup { JsonBody(1, "confirmed", o) : o \in MalformedOrderIds }
    \cup { JunkBody }

\* The signature headers that are not the gateway's for the body: none, an
\* empty one, a malformed one, one made with another key, the gateway's for
\* another body.
BadSignatures(body) ==
    { NoneVal, EmptySig, MalformedSig,
      HmacSha512(ForgedKey, body), HmacSha512(IpnSecret, JunkBody) }

Signed(b) == [body |-> b, signature |-> HmacSha512(IpnSecret, b)]

\* The requests POSTed to /payment_webhook: the signed bodies, and ProbeBody
\* (a body the handler would act on) with each bad signature.
Requests ==
    { Signed(b) : b \in SignedBodies }
    \cup { [body |-> ProbeBody, signature |-> sg] : sg \in BadSignatures(ProbeBody) }

\* The gateway's notifications for the invoice of payment 1: it is paid, or
\* it failed.
InvoiceRequests ==
    { Signed(ProbeBody),
      Signed(JsonBody(1, "failed", MakeOrderId(1, "beginner"))) }

\* The notifications that a payment of payment 1 is complete.
ConfirmationRequests ==
    { Signed(ProbeBody),
      Signed(JsonBody(1, "finished", MakeOrderId(1, "beginner"))) }

\* -------------------------------------------------------------- variables

VARIABLES
    now,        \* datetime.now(), in days
    ticks,      \* clock advances so far
    extends,    \* runs of the manager's extend command so far
    mgr,        \* the manager processes that are inside extend_subscription
    env,        \* the environment: IPN_SECRET_KEY and the channel ids
    users,      \* users_collection: user_id -> document
    payments,   \* payments_collection: payment_id -> document
    members,    \* Telegram: the (channel, user) pairs with access
    jobs,       \* the bot's AsyncIOScheduler job store
    wh          \* the webhook requests in flight, per handler slot

vars == <<now, ticks, extends, mgr, env, users, payments, members, jobs, wh>>


\* ------------------------------------------------------------- documents

\* A users document right after the upsert of start_command created it: the
\* subscription fields are missing.
NewUserDoc(u, t) ==
    [exists |-> TRUE, user_id |-> u, username |-> Username(u),
     first_seen |-> isoformat(t), last_interaction |-> isoformat(t),
     subscription_plan |-> None, subscription_start |-> NoneVal,
     subscription_end |-> NoneVal, status |-> None,
     expired_at |-> NoneVal, revoked_at |-> NoneVal]

\* A payments document that is stored as already confirmed.
NewPaymentDoc_confirmed(u, plan_key, payment_id, t) ==
    [exists |-> TRUE, user_id |-> u, plan |-> plan_key, payment_id |-> payment_id,
     amount |-> Price(plan_key), status |-> "confirmed",
     created_at |-> isoformat(t), payment_url |-> <<"invoice", payment_id>>,
     webhook_data |-> NoneVal, updated_at |-> NoneVal]

\* The document plan_callback inserts into payments.
NewPaymentDoc(u, plan_key, payment_id, t) ==
    [exists |-> TRUE, user_id |-> u, plan |-> plan_key, payment_id |-> payment_id,
     amount |-> Price(plan_key), status |-> "waiting",
     created_at |-> isoformat(t), payment_url |-> <<"invoice", payment_id>>,
     webhook_data |-> NoneVal, updated_at |-> NoneVal]

\* The channel ids of a complete environment, and of one that leaves
\* COMPLETE_CHANNEL_ID unset.
AllChannels == [c \in Plans |-> <<"channel", c>>]
NoBeginnerChannel == [AllChannels EXCEPT !["beginner"] = <<>>]

\* The environments the processes are started in: complete, without
\* IPN_SECRET_KEY, without BEGINNER_CHANNEL_ID.
Configured == [secret |-> IpnSecret, channels |-> AllChannels]
Environments ==
    { Configured,
      [secret |-> None, channels |-> AllChannels],
      [secret |-> IpnSecret, channels |-> NoBeginnerChannel] }

\* A handler slot with no request.
IdleSlot ==
    [pc |-> "idle", body |-> JunkBody, user_id |-> 0,
     plan |-> None, code |-> 0, error |-> None, success |-> FALSE,
     unbanned |-> FALSE, replay |-> FALSE]

\* The manager processes that can run at the same time, and one that is not
\* inside extend_subscription.
Managers == 1..NumHandlers
IdleManager == [pc |-> "idle", user_id |-> 0, days |-> 0, new_end_date |-> 0]

\* The state after the processes started on an empty database.
Started ==
    /\ now = 0
    /\ ticks = 0
    /\ extends = 0
    /\ mgr = [m \in Managers |-> IdleManager]
    /\ users = [u \in UserIds |-> NoDoc]
    /\ payments = [p \in PaymentIds |-> NoDoc]
    /\ members = {}
    /\ jobs = {}
    /\ wh = [h \in Handlers |-> IdleSlot]

Init == Started /\ env = Configured

InitAnyEnv == Started /\ env \in Environments

\* ------------------------------------------------------ webhook_server.py

\* A test of the status that takes everything but waiting for a success.
IsSuccessful_not_waiting(payment_status) == payment_status # "waiting"

\* payment_status in ['finished', 'confirmed']
IsSuccessful(payment_status) == payment_status \in SuccessStatuses

\* payments_collection.update_one({'payment_id': ...}, {'$set': {status,
\* webhook_data, updated_at}}): no upsert, so nothing happens without a
\* document of that payment id.
UpdatePayment(pays, webhook_data, t) ==
    [p \in PaymentIds |->
        IF pays[p].exists /\ p = webhook_data.payment_id
        THEN [pays[p] EXCEPT !.status = webhook_data.payment_status,
                             !.webhook_data = webhook_data,
                             !.updated_at = isoformat(t)]
        ELSE pays[p]]

\* An activation that forgets the 30 days: the subscription ends as it
\* starts.
ActivateUser_no_days(us, user_id, plan, t) ==
    [u \in UserIds |->
        IF us[u].exists /\ u = user_id
        THEN [us[u] EXCEPT !.subscription_plan = plan,
                           !.subscription_start = isoformat(t),
                           !.subscription_end = isoformat(t),
                           !.status = "active"]
        ELSE us[u]]

\* users_collection.update_one({'user_id': user_id}, {'$set': {plan, start,
\* end, status}}) of handle_successful_payment: no upsert.
ActivateUser(us, user_id, plan, t) ==
    [u \in UserIds |->
        IF us[u].exists /\ u = user_id
        THEN [us[u] EXCEPT !.subscription_plan = plan,
                           !.subscription_start = isoformat(t),
                           !.subscription_end = isoformat(t + SubscriptionDays),
                           !.status = "active"]
        ELSE us[u]]

\* The response of payment_webhook, with the request it answers.
Respond(h, body, code, error) ==
    wh' = [wh EXCEPT ![h] = [IdleSlot EXCEPT !.pc = "done", !.body = body,
                                             !.code = code, !.error = error]]

\* payment_webhook up to and including the update of the payment: the checks
\* of the signature and of the order id, then one database write.  replay
\* records whether the payment already held this very event as a completed
\* payment.
payment_webhook(h, body, signature) ==
    /\ wh[h].pc = "idle"
    /\ UNCHANGED <<now, ticks, extends, mgr, env, users, members, jobs>>
    /\ IF NoSignature(signature)
       THEN Respond(h, body, 400, "No signature") /\ UNCHANGED payments
       ELSE IF ~verify_ipn_signature(env.secret, body, signature)
       THEN Respond(h, body, 400, "Invalid signature") /\ UNCHANGED payments
       ELSE IF ~body.json
       THEN Respond(h, body, 500, "Internal server error") /\ UNCHANGED payments
       ELSE IF body.order_id = <<>>
       THEN Respond(h, body, 400, "No order_id") /\ UNCHANGED payments
       ELSE LET parsed == ParseOrderId(body.order_id) IN
            IF ~parsed.ok
            THEN Respond(h, body, 400, parsed.error) /\ UNCHANGED payments
            ELSE /\ payments' = UpdatePayment(payments, body, now)
                 /\ LET replay == /\ body.payment_id \in PaymentIds
                                  /\ payments[body.payment_id].exists
                                  /\ payments[body.payment_id].status \in SuccessStatuses
                                  /\ payments[body.payment_id].webhook_data = body
                    IN
                    wh' = [wh EXCEPT ![h] =
                              [IdleSlot EXCEPT
                                 !.pc = IF IsSuccessful(body.payment_status)
                                        THEN "add_user" ELSE "done",
                                 !.body = body,
                                 !.user_id = parsed.user_id, !.plan = parsed.plan,
                                 !.code = IF IsSuccessful(body.payment_status)
                                          THEN 0 ELSE 200,
                                 !.replay = replay]]

\* The handler returns 200 with handle_successful_payment having failed.
FailPayment(h) ==
    wh' = [wh EXCEPT ![h].pc = "done", ![h].code = 200, ![h].success = FALSE]

\* A grant that goes on to the welcome message when the Telegram call
\* raised, with no access given.
unban_chat_member_unchecked(h, ok) ==
    /\ wh[h].pc = "add_user"
    /\ UNCHANGED <<now, ticks, extends, mgr, env, users, payments, jobs>>
    /\ IF wh[h].plan \notin Plans
       THEN FailPayment(h) /\ UNCHANGED members
       ELSE LET channel_id == env.channels[PlanChannel(wh[h].plan)] IN
            IF channel_id = <<>>
            THEN FailPayment(h) /\ UNCHANGED members
            ELSE /\ members' = IF ok THEN members \cup {<<channel_id, wh[h].user_id>>}
                               ELSE members
                 /\ wh' = [wh EXCEPT ![h].pc = "welcome", ![h].unbanned = ok]

\* add_user_to_channel up to bot.unban_chat_member: plans[plan] raises
\* KeyError for an unknown plan, an unset channel id returns False, and the
\* Telegram call grants access or raises.
unban_chat_member(h, ok) ==
    /\ wh[h].pc = "add_user"
    /\ UNCHANGED <<now, ticks, extends, mgr, env, users, payments, jobs>>
    /\ IF wh[h].plan \notin Plans
       THEN FailPayment(h) /\ UNCHANGED members
       ELSE LET channel_id == env.channels[PlanChannel(wh[h].plan)] IN
            IF channel_id = <<>> \/ ~ok
            THEN FailPayment(h) /\ UNCHANGED members
            ELSE /\ members' = members \cup {<<channel_id, wh[h].user_id>>}
                 /\ wh' = [wh EXCEPT ![h].pc = "welcome", ![h].unbanned = TRUE]

\* add_user_to_channel's bot.send_message of the welcome text: it is sent, or
\* it raises and add_user_to_channel returns False.
send_welcome(h, ok) ==
    /\ wh[h].pc = "welcome"
    /\ UNCHANGED <<now, ticks, extends, mgr, env, users, payments, members, jobs>>
    /\ IF ok
       THEN wh' = [wh EXCEPT ![h].pc = "update_user"]
       ELSE FailPayment(h)

\* handle_successful_payment after add_user_to_channel returned True: the
\* update of the user, then the 200 of payment_webhook.
handle_successful_payment(h) ==
    /\ wh[h].pc = "update_user"
    /\ UNCHANGED <<now, ticks, extends, mgr, env, payments, members, jobs>>
    /\ users' = ActivateUser(users, wh[h].user_id, wh[h].plan, now)
    /\ wh' = [wh EXCEPT ![h].pc = "done", ![h].code = 200, ![h].success = TRUE]

\* The response has been sent: the worker takes the next request.
webhook_return(h) ==
    /\ wh[h].pc = "done"
    /\ wh' = [wh EXCEPT ![h] = IdleSlot]
    /\ UNCHANGED <<now, ticks, extends, mgr, env, users, payments, members, jobs>>

\* ------------------------------------------------------------------ clock

Tick(d) ==
    /\ ticks < MaxTicks
    /\ now' = now + d
    /\ ticks' = ticks + 1
    /\ UNCHANGED <<extends, mgr, env, users, payments, members, jobs, wh>>

\* -------------------------------------------------------- telegram_bot.py

\* The test of start_command for "already has an active subscription".
AlreadySubscribed(user_data, t) ==
    /\ user_data.exists
    /\ user_data.subscription_end # NoneVal
    /\ fromisoformat(user_data.subscription_end) > t

\* The upsert of start_command: {'$set': {user_id, username, first_seen,
\* last_interaction}}, upsert=True.
RegisterUser(us, user_id, t) ==
    [u \in UserIds |->
        IF u # user_id THEN us[u]
        ELSE IF us[u].exists
        THEN [us[u] EXCEPT !.username = Username(u),
                           !.first_seen = isoformat(t),
                           !.last_interaction = isoformat(t)]
        ELSE NewUserDoc(u, t)]

\* /start: "Welcome back" and nothing else for a subscribed user, else the
\* plan buttons and the upsert.
start_command(u) ==
    /\ UNCHANGED <<now, ticks, extends, mgr, env, payments, members, jobs, wh>>
    /\ users' = IF AlreadySubscribed(users[u], now)
                THEN users
                ELSE RegisterUser(users, u, now)

\* The ids the gateway has not issued yet; it issues them in order.
FreshPaymentIds == {p \in PaymentIds : ~payments[p].exists}
NextPaymentId == CHOOSE p \in FreshPaymentIds : \A q \in FreshPaymentIds : p <= q

\* callback_data of the pressed buttons: "plan_" and a key, which
\* query.data.replace('plan_', '') gives back; one key of the plans
\* dictionary and one that is not.
PlanKeys == {"beginner", "gold"}

\* A press of a plan button by a user the bot has shown the buttons to (the
\* buttons come with the reply of start_command, which registers the user).
\* An unknown key is answered "Invalid plan selected"; else
\* create_nowpayments_payment returns the invoice (gateway_ok), which is
\* stored, or None, which is answered "Failed to create payment".
plan_callback(u, plan_key, gateway_ok) ==
    /\ users[u].exists
    /\ UNCHANGED <<now, ticks, extends, mgr, env, users, members, jobs, wh>>
    /\ payments' =
          IF plan_key \in Plans /\ gateway_ok /\ FreshPaymentIds # {}
          THEN [payments EXCEPT ![NextPaymentId] =
                   NewPaymentDoc(u, plan_key, NextPaymentId, now)]
          ELSE payments

\* id=f"expiry_{user_id}_{plan}" with DateTrigger(run_date=subscription_end)
ExpiryJob(user_id, plan, run_date) ==
    [id |-> <<"expiry", user_id, plan>>, user_id |-> user_id, plan |-> plan,
     run_date |-> run_date]

\* The plans handle_successful_payment of the bot is called with.
BotPlans == {"beginner"}

\* HackAcademyBot.handle_successful_payment, a method of the bot that nothing
\* under src/ calls: add_user_to_channel (unknown plan, unset channel, failing
\* unban or welcome give False), the update of the user, then
\* scheduler.add_job, which raises ConflictingIdError for an id already in
\* the job store; the exception is caught after the user was updated.
bot_handle_successful_payment(u, plan, unban_ok, welcome_ok) ==
    /\ UNCHANGED <<now, ticks, extends, mgr, env, payments, wh>>
    /\ LET channel_id == env.channels[PlanChannel(plan)] IN
       IF channel_id = <<>> \/ ~unban_ok
       THEN UNCHANGED <<users, members, jobs>>
       ELSE /\ members' = members \cup {<<channel_id, u>>}
            /\ IF ~welcome_ok
               THEN UNCHANGED <<users, jobs>>
               ELSE /\ users' = ActivateUser(users, u, plan, now)
                    /\ jobs' = IF \E j \in jobs : j.id = <<"expiry", u, plan>>
                               THEN jobs
                               ELSE jobs \cup
                                    {ExpiryJob(u, plan, now + SubscriptionDays)}

\* The update of handle_subscription_expiry: {'$set': {status: 'expired',
\* expired_at}}, no upsert, whatever the document holds.
ExpireUser(us, user_id, t) ==
    [u \in UserIds |->
        IF us[u].exists /\ u = user_id
        THEN [us[u] EXCEPT !.status = "expired", !.expired_at = isoformat(t)]
        ELSE us[u]]

\* A job of the scheduler fires at its run date: handle_subscription_expiry.
\* remove_user_from_channel bans the user or fails (its result is not read),
\* then the user is updated and the recharge message is sent.
handle_subscription_expiry(job, ban_ok) ==
    /\ job \in jobs
    /\ job.run_date <= now
    /\ jobs' = jobs \ {job}
    /\ UNCHANGED <<now, ticks, extends, mgr, env, payments, wh>>
    /\ LET channel_id == env.channels[PlanChannel(job.plan)] IN
       members' = IF channel_id # <<>> /\ ban_ok
                  THEN members \ {<<channel_id, job.user_id>>}
                  ELSE members
    /\ users' = ExpireUser(users, job.user_id, now)

\* The bot process is started again: __init__ makes a new AsyncIOScheduler
\* and run() starts it; the job store is in memory.
run ==
    /\ jobs' = {}
    /\ UNCHANGED <<now, ticks, extends, mgr, env, users, payments, members, wh>>

\* --------------------------------------------------------- bot_manager.py

\* An extension that always counts from now, whatever end date is stored.
NewEndDate_from_now(user, days, t) == t + days

\* new_end_date of extend_subscription.
NewEndDate(user, days, t) ==
    IF user.subscription_end # NoneVal
    THEN fromisoformat(user.subscription_end) + days
    ELSE t + days

\* extend --user-id u --days d: "not found" for a user without a document.
extend_subscription(user_id, days) ==
    /\ extends < MaxExtends
    /\ extends' = extends + 1
    /\ UNCHANGED <<now, ticks, mgr, env, payments, members, jobs, wh>>
    /\ users' =
          IF ~users[user_id].exists
          THEN users
          ELSE [users EXCEPT
                   ![user_id].subscription_end =
                       isoformat(NewEndDate(users[user_id], days, now)),
                   ![user_id].status = "active"]

\* extend_subscription up to its update, in manager process m: find_one,
\* "not found" and the end of the command for a user without a document,
\* else new_end_date computed from the document that was read.
extend_find_one(m, user_id, days) ==
    /\ mgr[m].pc = "idle"
    /\ users[user_id].exists
    /\ mgr' = [mgr EXCEPT ![m] =
                  [pc |-> "found", user_id |-> user_id, days |-> days,
                   new_end_date |-> NewEndDate(users[user_id], days, now)]]
    /\ UNCHANGED <<now, ticks, extends, env, users, payments, members, jobs, wh>>

\* The update_one of extend_subscription in manager process m, with the
\* new_end_date it computed before; the command ends.
extend_update_one(m) ==
    /\ mgr[m].pc = "found"
    /\ users' = [u \in UserIds |->
                    IF users[u].exists /\ u = mgr[m].user_id
                    THEN [users[u] EXCEPT
                             !.subscription_end = isoformat(mgr[m].new_end_date),
                             !.status = "active"]
                    ELSE users[u]]
    /\ mgr' = [mgr EXCEPT ![m].pc = "done"]
    /\ UNCHANGED <<now, ticks, extends, env, payments, members, jobs, wh>>

\* Manager processes M running extend step by step, each of them once.
ExtendSteps(M) ==
    \/ \E m \in M, u \in Chatters, d \in ExtendDays : extend_find_one(m, u, d)
    \/ \E m \in M : extend_update_one(m)

\* The update of revoke_access: {'$set': {status: 'revoked', revoked_at}}.
RevokeUser(us, user_id, t) ==
    [u \in UserIds |->
        IF us[u].exists /\ u = user_id
        THEN [us[u] EXCEPT !.status = "revoked", !.revoked_at = isoformat(t)]
        ELSE us[u]]

\* revoke --user-id u
revoke_access(user_id) ==
    /\ UNCHANGED <<now, ticks, extends, mgr, env, payments, members, jobs, wh>>
    /\ users' = RevokeUser(users, user_id, now)

\* A filter that forgets the status: every document with subscription_end in
\* the past matches.
IsExpiredActive_any_status(user, t) ==
    /\ user.exists
    /\ user.subscription_end # NoneVal
    /\ IsoLt(user.subscription_end, isoformat(t))

\* The filter of cleanup_expired: {'subscription_end': {'$lt': now},
\* 'status': 'active'}; a document without subscription_end does not match.
IsExpiredActive(user, t) ==
    /\ user.exists
    /\ user.status = "active"
    /\ user.subscription_end # NoneVal
    /\ IsoLt(user.subscription_end, isoformat(t))

\* cleanup
cleanup_expired ==
    /\ UNCHANGED <<now, ticks, extends, mgr, env, payments, members, jobs, wh>>
    /\ users' = [u \in UserIds |->
                    IF IsExpiredActive(users[u], now)
                    THEN [users[u] EXCEPT !.status = "expired",
                                          !.expired_at = isoformat(now)]
                    ELSE users[u]]

\* ------------------------------------------------------------ the system

\* The steps of the webhook server with handler slots H taking requests R.
WebhookSteps(H, R) ==
    \/ \E h \in H, r \in R : payment_webhook(h, r.body, r.signature)
    \/ \E h \in H, ok \in BOOLEAN : unban_chat_member(h, ok)
    \/ \E h \in H, ok \in BOOLEAN : send_welcome(h, ok)
    \/ \E h \in H : handle_successful_payment(h)
    \/ \E h \in H : webhook_return(h)

\* The user's side of the bot: /start and the plan buttons with keys K.
ChatSteps(K) ==
    \/ \E u \in Chatters : start_command(u)
    \/ \E u \in Chatters, k \in K, ok \in BOOLEAN : plan_callback(u, k, ok)

\* The bot's scheduler and its payment method.
SchedulerSteps ==
    \/ \E u \in Chatters, plan \in BotPlans, a, b \in BOOLEAN :
          bot_handle_successful_payment(u, plan, a, b)
    \/ \E job \in jobs, ok \in BOOLEAN : handle_subscription_expiry(job, ok)
    \/ run

\* The operator's commands.
ManagerSteps ==
    \/ \E u \in UserIds, d \in ExtendDays : extend_subscription(u, d)
    \/ \E u \in UserIds : revoke_access(u)
    \/ cleanup_expired

\* The system as it is deployed, one webhook request at a time: user 1 buys
\* the beginner plan, the gateway notifies about the invoice of payment 1,
\* the operator runs the manager.  Nothing calls the bot's
\* handle_successful_payment, so its scheduler holds no job.
Next ==
    \/ WebhookSteps({1}, InvoiceRequests)
    \/ ChatSteps(PlanKeys)
    \/ ManagerSteps
    \/ \E d \in TickDays : Tick(d)

Spec == Init /\ [][Next]_vars

\* The deployed system with the bot's handle_successful_payment called as
\* well, so that expiry jobs exist and fire.
NextScheduler ==
    \/ Next
    \/ SchedulerSteps

SpecScheduler == Init /\ [][NextScheduler]_vars

\* The webhook server under every kind of request and environment, with the
\* users' side of the bot.
NextWebhook ==
    \/ WebhookSteps({1}, Requests)
    \/ ChatSteps(PlanKeys)
    \/ \E d \in TickDays : Tick(d)

SpecWebhook == InitAnyEnv /\ [][NextWebhook]_vars

\* Several requests in the webhook server at the same time, all of them
\* confirmations of payment 1.
NextConcurrent ==
    \/ WebhookSteps(Handlers, ConfirmationRequests)
    \/ ChatSteps(PlanKeys)
    \/ \E d \in TickDays : Tick(d)

SpecConcurrent == Init /\ [][NextConcurrent]_vars

\* The operator's commands on the deployed system over a shorter time: user
\* 1 buys the beginner plan, the gateway confirms payment 1, the operator
\* runs the manager, and the clock advances one time less than MaxTicks.
NextManager ==
    \/ WebhookSteps({1}, {Signed(ProbeBody)})
    \/ ChatSteps({"beginner"})
    \/ ManagerSteps
    \/ \E d \in TickDays : ticks + 1 < MaxTicks /\ Tick(d)

SpecManager == Init /\ [][NextManager]_vars

\* Several operators extending at the same time, each command running
\* step by step, while user 1 buys the beginner plan and the gateway
\* confirms payment 1.
NextRace ==
    \/ WebhookSteps({1}, {Signed(ProbeBody)})
    \/ ChatSteps({"beginner"})
    \/ ExtendSteps(Managers)

SpecRace == Init /\ [][NextRace]_vars

\* ----------------------------------------------------------- properties

\* The request carries the gateway's signature of its body.
GatewaySigned(r) == r.signature = HmacSha512(IpnSecret, r.body)

\* User u has access to the channel of the plan, or to some plan's channel.
IsMember(u, plan) == <<env.channels[PlanChannel(plan)], u>> \in members

\* The statuses of a payment that are final, and the payments that hold one.
TerminalStatuses == {"confirmed", "finished", "failed", "refunded", "expired"}
IsTerminal(payment) == payment.exists /\ payment.status \in TerminalStatuses

\* The subscription fields of a users document.
Subscription(user) ==
    <<user.status, user.subscription_plan, user.subscription_start,
      user.subscription_end>>

\* C1 (as claimed): a handler that was given, with a valid signature, the
\* event a payment of the order id's user and plan already holds as completed
\* changes in none of its steps the status, plan, start or end of a user or a
\* payments document, and answers 200.
C1_ReplayIsNoOp ==
    [][\A h \in Handlers :
          (/\ wh'[h] # wh[h] /\ wh'[h].replay
           /\ payments[wh'[h].body.payment_id].user_id = wh'[h].user_id
           /\ payments[wh'[h].body.payment_id].plan = wh'[h].plan)
          => /\ \A u \in UserIds :
                   users'[u].exists = users[u].exists
                   /\ (users[u].exists
                       => Subscription(users'[u]) = Subscription(users[u]))
             /\ payments' = payments
             /\ (wh'[h].pc = "done" => wh'[h].code = 200)]_vars

\* C2 (as claimed): of two requests in the server at the same time that
\* carry the same confirmation of a payment whose invoice was made for the
\* order id's user and plan, at most one has called unban_chat_member: the
\* membership is granted once.
C2_GrantedOnce ==
    \A h1, h2 \in Handlers :
       LET b == wh[h1].body IN
       (/\ h1 # h2
        /\ wh[h1].unbanned /\ wh[h2].unbanned
        /\ wh[h2].body = b
        /\ b.payment_id \in PaymentIds
        /\ payments[b.payment_id].exists
        /\ payments[b.payment_id].user_id = wh[h1].user_id
        /\ payments[b.payment_id].plan = wh[h1].plan)
       => FALSE

\* The requests that do not carry the gateway's signature of their body.
BadlySignedRequests == {r \in Requests : ~GatewaySigned(r)}

\* C3: a request whose signature header is missing, empty or not the
\* gateway's digest of the body is answered 400 in one step that changes no
\* users document, no payments document and no membership.
C3_BadSignatureRejected ==
    [][\A h \in Handlers, r \in BadlySignedRequests :
          (wh'[h] # wh[h] /\ payment_webhook(h, r.body, r.signature))
          => /\ wh'[h].pc = "done"
             /\ wh'[h].code = 400
             /\ UNCHANGED <<users, payments, members>>]_vars

\* C3's case: with the secret set, a request with a forged signature was
\* answered 400 "Invalid signature" while the payment it names waits and its
\* user is registered.
C3_Witness ==
    \E h \in Handlers :
       /\ wh[h].pc = "done" /\ wh[h].code = 400
       /\ wh[h].error = "Invalid signature"
       /\ wh[h].body = ProbeBody
       /\ env.secret = IpnSecret
       /\ payments[1].exists /\ payments[1].status = "waiting"
       /\ users[1].exists

\* C4 (as claimed): no step of a handler on a request (all of them validly
\* signed) whose order id is malformed (unknown plan, user id that is no
\* number, wrong prefix, too few parts, empty) changes a users document, a
\* payments document or a membership, and the request is answered 400.
C4_MalformedOrderIdIgnored ==
    [][\A h \in Handlers :
          (/\ wh'[h] # wh[h]
           /\ wh'[h].body.json
           /\ wh'[h].body.order_id \in MalformedOrderIds)
          => /\ UNCHANGED <<users, payments, members>>
             /\ (wh'[h].pc = "done" => wh'[h].code = 400)]_vars

\* The validly signed requests of a confirmed or finished event with an
\* order id as the bot makes them.
CompletionRequests ==
    {r \in Requests : /\ GatewaySigned(r) /\ r.body.json
                      /\ r.body.order_id \in WellFormedOrderIds
                      /\ r.body.payment_status \in SuccessStatuses}

\* The three steps of a confirmation that C5 is about, with the status the
\* payment is to hold: the request of a confirmed or finished event for a
\* waiting payment is accepted, unban_chat_member succeeds, the registered
\* user is updated.
ConfirmationApplied(stored_status(_)) ==
    /\ \A h \in Handlers, r \in CompletionRequests :
          LET p == r.body.payment_id IN
          (/\ wh'[h] # wh[h]
           /\ env.secret = IpnSecret
           /\ p \in PaymentIds /\ payments[p].exists
           /\ payments[p].status = "waiting"
           /\ payment_webhook(h, r.body, r.signature))
          => /\ payments'[p].status = stored_status(r.body.payment_status)
             /\ payments'[p].webhook_data = r.body
    /\ \A h \in Handlers :
          (/\ wh'[h] # wh[h]
           /\ wh[h].plan \in Plans
           /\ env.channels[PlanChannel(wh[h].plan)] # <<>>
           /\ unban_chat_member(h, TRUE))
          => <<env.channels[PlanChannel(wh[h].plan)], wh[h].user_id>> \in members'
    /\ \A h \in Handlers :
          LET u == wh[h].user_id IN
          (wh'[h] # wh[h] /\ handle_successful_payment(h) /\ users[u].exists)
          => /\ users'[u].status = "active"
             /\ users'[u].subscription_plan = wh[h].plan
             /\ users'[u].subscription_start = isoformat(now)
             /\ users'[u].subscription_end = isoformat(now + SubscriptionDays)
             /\ <<env.channels[PlanChannel(wh[h].plan)], u>> \in members'

AsConfirmed(payment_status) == "confirmed"
AsSent(payment_status) == payment_status

\* C5 (as claimed): applying a validly signed confirmed or finished event to
\* a waiting payment of a registered user, the grant succeeding, stores the
\* payload with Payment.status = confirmed, grants the plan's channel and
\* sets the user active with the plan, start = now and end = now + 30 days.
C5_ConfirmationApplied == [][ConfirmationApplied(AsConfirmed)]_vars

\* C5 (amended): the same, with Payment.status = the status of the event:
\* confirmed for a confirmed event, finished for a finished one.
C5_ConfirmationAppliedAsSent == [][ConfirmationApplied(AsSent)]_vars

\* C5's case: a finished event for the waiting payment 1 of user 1 was
\* handled to its end: the payment holds the event, the user is active for
\* 30 days from now with the beginner plan and has access to its channel.
C5_Witness ==
    \E h \in Handlers :
       /\ wh[h].pc = "done" /\ wh[h].success
       /\ wh[h].body.payment_status = "finished"
       /\ payments[1].exists /\ payments[1].status = "finished"
       /\ payments[1].webhook_data = wh[h].body
       /\ payments[1].user_id = 1 /\ payments[1].plan = "beginner"
       /\ users[1].exists /\ users[1].status = "active"
       /\ users[1].subscription_plan = "beginner"
       /\ users[1].subscription_start = isoformat(now)
       /\ users[1].subscription_end = isoformat(now + SubscriptionDays)
       /\ IsMember(1, "beginner")

\* C6 (as claimed): the handler has no retry to leave behind, so when it
\* gives up after a failed grant (unknown causes: the unban or the welcome
\* message failed) with the payment completed and the user registered, the
\* user is active and has access to the plan's channel.
C6_GrantFailureNotDropped ==
    [][\A h \in Handlers :
          LET p == wh[h].body.payment_id
              u == wh[h].user_id
          IN
          (/\ wh[h].pc \in {"add_user", "welcome"} /\ wh'[h].pc = "done"
           /\ wh[h].plan \in Plans
           /\ p \in PaymentIds /\ payments[p].exists
           /\ payments[p].status \in SuccessStatuses
           /\ u \in UserIds /\ users[u].exists)
          => /\ users'[u].status = "active"
             /\ <<env.channels[PlanChannel(wh[h].plan)], u>> \in members']_vars

\* confirmed and finished are one final state of a payment.
StatusClass(status) == IF status \in SuccessStatuses THEN "confirmed" ELSE status

\* C7 (as claimed): once a payment holds a final status, no step changes it
\* to another one.
C7_TerminalStatusKept ==
    [][\A p \in PaymentIds :
          IsTerminal(payments[p])
          => StatusClass(payments'[p].status) = StatusClass(payments[p].status)]_vars

\* The requests of a status that is neither confirmed nor finished.
OtherStatusRequests == {r \in Requests : r.body.payment_status \notin SuccessStatuses}

\* C8: a request whose status is neither confirmed nor finished is finished
\* in one step that changes no users document, no membership and no
\* scheduled job, and of a payments document nothing but status,
\* webhook_data and updated_at.
C8_OtherStatusTouchesPaymentOnly ==
    [][\A h \in Handlers, r \in OtherStatusRequests :
          (wh'[h] # wh[h] /\ payment_webhook(h, r.body, r.signature))
          => /\ wh'[h].pc = "done"
             /\ UNCHANGED <<users, members, jobs>>
             /\ \A p \in PaymentIds :
                   payments'[p] = [payments[p] EXCEPT
                                      !.status = payments'[p].status,
                                      !.webhook_data = payments'[p].webhook_data,
                                      !.updated_at = payments'[p].updated_at]]_vars

\* C8's case: a failed event for payment 1 was answered 200 and the payment
\* holds it, with user 1 registered.
C8_Witness ==
    \E h \in Handlers :
       /\ wh[h].pc = "done" /\ wh[h].code = 200
       /\ wh[h].body.payment_status = "failed"
       /\ payments[1].exists /\ payments[1].status = "failed"
       /\ payments[1].webhook_data = wh[h].body
       /\ payments[1].updated_at = isoformat(now)
       /\ users[1].exists

\* C9 (as claimed): a run of cleanup-expired leaves every user that was
\* active on a plan with subscription_end in the past expired and without
\* channel membership.
C9_ExpiredLoseMembership ==
    [][cleanup_expired
       => \A u \in UserIds :
             (IsExpiredActive(users[u], now) /\ users[u].subscription_plan \in Plans)
             => /\ users'[u].status = "expired"
                /\ ~(\E m \in members' : m[2] = u)]_vars

\* C10 (as claimed): revoke on a user that is active on a plan leaves the
\* user revoked, without channel membership and without a pending expiry job.
C10_RevokeRemovesAccess ==
    [][\A u \in UserIds :
          (/\ revoke_access(u)
           /\ users[u].exists /\ users[u].status = "active"
           /\ users[u].subscription_plan \in Plans)
          => /\ users'[u].status = "revoked"
             /\ ~(\E m \in members' : m[2] = u)
             /\ ~(\E j \in jobs' : j.user_id = u)]_vars

\* C11 (as claimed): an expiry job that fires for a user who was revoked
\* since, or whose subscription is active with subscription_end in the
\* future (after an extension or a renewal), leaves the user's status as it
\* is, and leaves the memberships of the still subscribed user as they are.
C11_StaleJobDoesNothing ==
    [][\A job \in jobs, ok \in BOOLEAN :
          LET u == job.user_id
              subscribed == /\ users[u].status = "active"
                            /\ users[u].subscription_end # NoneVal
                            /\ fromisoformat(users[u].subscription_end) > now
          IN
          (/\ jobs' # jobs
           /\ handle_subscription_expiry(job, ok)
           /\ users[u].exists
           /\ (users[u].status = "revoked" \/ subscribed))
          => /\ users'[u].status = users[u].status
             /\ (subscribed => members' = members)]_vars

\* C12: extend for an existing user sets status active, and sets
\* subscription_end to now + d days when the user had no end date, to E + d
\* days when the user had the end date E in the future.
C12_ExtendAddsDays ==
    [][\A u \in UserIds, d \in ExtendDays :
          (/\ extends' # extends
           /\ extend_subscription(u, d)
           /\ users[u].exists)
          => /\ users'[u].status = "active"
             /\ (users[u].subscription_end = NoneVal
                 => users'[u].subscription_end = isoformat(now + d))
             /\ (/\ users[u].subscription_end # NoneVal
                 /\ fromisoformat(users[u].subscription_end) > now
                 => users'[u].subscription_end =
                       isoformat(fromisoformat(users[u].subscription_end) + d))]_vars

\* C12's case: user 1, whose paid subscription ran to a day still in the
\* future, was extended: the subscription is active and ends 10 days after
\* the 30 days paid for.
C12_Witness ==
    /\ extends = 1
    /\ users[1].exists /\ users[1].status = "active"
    /\ users[1].subscription_plan = "beginner"
    /\ users[1].subscription_start = isoformat(0)
    /\ users[1].subscription_end = isoformat(SubscriptionDays + 10)
    /\ now < SubscriptionDays + 10

\* C13: a press of a plan button changes no users document; with a known
\* plan and an invoice from the gateway it adds exactly one payments
\* document, with status waiting, the user, the plan, its price, the
\* gateway's payment id and the invoice URL, and changes no other; with an
\* unknown plan or without an invoice it changes no payments document.
C13_InitiatePayment ==
    [][\A u \in Chatters, k \in PlanKeys, ok \in BOOLEAN :
          (payments' # payments /\ plan_callback(u, k, ok))
          => /\ users' = users
             /\ k \in Plans /\ ok
             /\ \E p \in PaymentIds :
                   /\ ~payments[p].exists
                   /\ payments'[p].exists
                   /\ payments'[p].status = "waiting"
                   /\ payments'[p].user_id = u
                   /\ payments'[p].plan = k
                   /\ payments'[p].amount = Price(k)
                   /\ payments'[p].payment_id = p
                   /\ payments'[p].payment_url = <<"invoice", p>>
                   /\ \A q \in PaymentIds \ {p} : payments'[q] = payments[q]]_vars

\* C13's case: user 1 pressed the beginner button and the gateway made the
\* invoice: payment 1 waits, for user 1, the beginner plan and its price, and
\* no notification has touched it.
C13_Witness ==
    /\ payments[1].exists /\ payments[1].status = "waiting"
    /\ payments[1].user_id = 1 /\ payments[1].plan = "beginner"
    /\ payments[1].amount = Price("beginner")
    /\ payments[1].payment_url = <<"invoice", 1>>
    /\ payments[1].webhook_data = NoneVal
    /\ users[1].exists

\* C14 (as claimed): /start by a user who has a users document leaves
\* first_seen and the subscription fields as they are and sets
\* last_interaction to now.
C14_RegisterKeepsFirstSeen ==
    [][\A u \in Chatters :
          (users' # users /\ start_command(u) /\ users[u].exists)
          => /\ users'[u].first_seen = users[u].first_seen
             /\ users'[u].last_interaction = isoformat(now)
             /\ Subscription(users'[u]) = Subscription(users[u])]_vars

\* The user is active and the subscription's end has passed.
IsOverdue(user, t) ==
    /\ user.exists /\ user.status = "active"
    /\ user.subscription_end # NoneVal
    /\ fromisoformat(user.subscription_end) < t

\* C15: a run of cleanup changes exactly the users that are active with
\* subscription_end in the past, and of those nothing but status, which
\* becomes expired, and expired_at, which becomes now; it changes no payments
\* document, and after it no user is active with subscription_end in the past.
C15_CleanupExpiresExactlyOverdue ==
    [][(users' # users /\ cleanup_expired)
       => /\ \A u \in UserIds :
                users'[u] = IF IsOverdue(users[u], now)
                            THEN [users[u] EXCEPT !.status = "expired",
                                                  !.expired_at = isoformat(now)]
                            ELSE users[u]
          /\ payments' = payments
          /\ \A u \in UserIds : ~IsOverdue(users'[u], now')]_vars

\* C15's case: cleanup ran now on user 1, whose paid subscription had ended:
\* the user is expired as of now, with plan and dates kept.
C15_Witness ==
    /\ users[1].exists /\ users[1].status = "expired"
    /\ users[1].expired_at = isoformat(now)
    /\ users[1].subscription_plan = "beginner"
    /\ users[1].subscription_end = isoformat(SubscriptionDays)
    /\ now > SubscriptionDays
    /\ jobs = {}

\* The requests that carry a signature header.
RequestsWithHeader == {r \in Requests : ~NoSignature(r.signature)}

\* C16: for every request with a signature header the handler gets past the
\* check of the signature exactly when the secret is set and the header is
\* the keyed hash of the request's body under it; in every other case
\* (secret not set, malformed header, other key, other body) the check gives
\* false without raising: the answer is 400 "Invalid signature", not 500,
\* and no users or payments document has changed.
C16_VerifyIsTotalAndExact ==
    [][\A h \in Handlers :
          (wh[h].pc = "idle" /\ wh'[h].pc # "idle")
          => \A r \in RequestsWithHeader :
                (wh'[h].body = r.body /\ payment_webhook(h, r.body, r.signature))
                => IF /\ env.secret # None
                      /\ r.signature = HmacSha512(env.secret, r.body)
                   THEN wh'[h].error # "Invalid signature"
                   ELSE /\ wh'[h].pc = "done"
                        /\ wh'[h].code = 400
                        /\ wh'[h].error = "Invalid signature"
                        /\ UNCHANGED <<users, payments>>]_vars

\* C16's case: with no secret set, the gateway's notification that payment 1
\* failed, signed by the gateway, was answered 400 "Invalid signature" and
\* the payment still waits.
C16_Witness ==
    \E h \in Handlers :
       /\ env.secret = None
       /\ wh[h].pc = "done" /\ wh[h].code = 400
       /\ wh[h].error = "Invalid signature"
       /\ wh[h].body.payment_status = "failed"
       /\ payments[1].exists /\ payments[1].status = "waiting"

\* C17 (as claimed): an active user has subscription_end set, and a step that
\* makes a user active who was not leaves subscription_end in the future.
C17_ActiveHasFutureEnd ==
    [][\A u \in UserIds :
          users'[u].exists
          => /\ (users'[u].status = "active"
                 => users'[u].subscription_end # NoneVal)
             /\ (/\ users[u].exists
                 /\ users[u].status # "active"
                 /\ users'[u].status = "active"
                 => /\ users'[u].subscription_end # NoneVal
                    /\ fromisoformat(users'[u].subscription_end) > now')]_vars

\* The changes of a user's status that are allowed; None is the status
\* "none" of a document without the field.
AllowedStatusChanges ==
    { <<None, "active">>, <<"active", "expired">>, <<"active", "revoked">>,
      <<"expired", "active">> }

\* C18 (as claimed): every step that changes the status of a user makes one
\* of the changes none -> active, active -> expired, active -> revoked,
\* expired -> active.
C18_StatusChangesAllowed ==
    [][\A u \in UserIds :
          (/\ users[u].exists /\ users'[u].exists
           /\ users'[u].status # users[u].status)
          => <<users[u].status, users'[u].status>> \in AllowedStatusChanges]_vars

\* C19: a handler that ends with the grant failed (unknown plan, channel not
\* set, unban or welcome message raising) has changed no users document in
\* that step, and a step of a handler that changes a users document is made
\* after its unban succeeded, for a user with access to the plan's channel.
C19_NoActivationWithoutGrant ==
    [][\A h \in Handlers :
          wh'[h] # wh[h]
          => /\ (wh'[h].pc = "done" /\ wh'[h].code = 200
                 /\ IsSuccessful(wh'[h].body.payment_status) /\ ~wh'[h].success
                 => users' = users)
             /\ (users' # users
                 => /\ wh[h].unbanned
                    /\ wh[h].plan \in Plans
                    /\ <<env.channels[PlanChannel(wh[h].plan)], wh[h].user_id>>
                          \in members)]_vars

\* C19's case: the confirmation of payment 1 was handled to its end with the
\* grant failed: the payment is confirmed, and user 1 has no status, no plan
\* and no dates.
C19_Witness ==
    \E h \in Handlers :
       /\ wh[h].pc = "done" /\ wh[h].code = 200 /\ ~wh[h].success
       /\ wh[h].body = ProbeBody
       /\ payments[1].exists /\ payments[1].status = "confirmed"
       /\ users[1].exists
       /\ Subscription(users[1]) = <<None, None, NoneVal, NoneVal>>

\* The pending expiry jobs of a user.
JobsOf(js, u) == {j \in js : j.user_id = u}

\* C20 (as claimed): after a step that activates a registered user for a
\* confirmed payment (the webhook's handle_successful_payment, or the bot's
\* with the grant succeeding) there is exactly one pending expiry job of the
\* user, and its run date is the user's subscription_end.
C20_OneExpiryJobAtEnd ==
    [][\A u \in UserIds :
          (/\ users' # users
           /\ users[u].exists
           /\ \/ \E h \in Handlers :
                    wh[h].user_id = u /\ handle_successful_payment(h)
              \/ \E plan \in BotPlans :
                    bot_handle_successful_payment(u, plan, TRUE, TRUE))
          => /\ Cardinality(JobsOf(jobs', u)) = 1
             /\ \A j \in JobsOf(jobs', u) :
                   j.run_date = fromisoformat(users'[u].subscription_end)]_vars

\* C21 (as claimed): after the bot process was started again, every user that
\* is active with subscription_end in the future has exactly one pending
\* expiry job, at that end.
C21_RestartKeepsExpiry ==
    [][(jobs' # jobs /\ run)
       => \A u \in UserIds :
             (/\ users'[u].exists /\ users'[u].status = "active"
              /\ users'[u].subscription_end # NoneVal
              /\ fromisoformat(users'[u].subscription_end) > now')
             => /\ Cardinality(JobsOf(jobs', u)) = 1
                /\ \A j \in JobsOf(jobs', u) :
                      j.run_date = fromisoformat(users'[u].subscription_end)]_vars

\* C22 (as claimed): a confirmed payment applied for a registered user who is
\* active with subscription_end E in the future sets subscription_end to
\* E + 30 days, the greater of now and E being E.
C22_RenewalExtendsFromEnd ==
    [][\A h \in Handlers :
          LET u == wh[h].user_id IN
          (/\ wh'[h] # wh[h]
           /\ handle_successful_payment(h)
           /\ users[u].exists /\ users[u].status = "active"
           /\ users[u].subscription_end # NoneVal
           /\ fromisoformat(users[u].subscription_end) > now)
          => users'[u].subscription_end =
                isoformat(fromisoformat(users[u].subscription_end)
                          + SubscriptionDays)]_vars

\* C23 (as claimed): no update of a user is lost: the update of an extension
\* by d days of a user who has an end date leaves subscription_end d days
\* after the end that is stored when the update is made, as in a serial run
\* of the operations (two extensions by d1 and d2 from E give E + d1 + d2).
C23_ExtensionNotLost ==
    [][\A m \in Managers :
          LET u == mgr[m].user_id IN
          (/\ mgr'[m] # mgr[m]
           /\ extend_update_one(m)
           /\ users[u].subscription_end # NoneVal)
          => users'[u].subscription_end =
                isoformat(fromisoformat(users[u].subscription_end) + mgr[m].days)]_vars

\* C24 (as claimed): an expiry job that has fired does not leave its user
\* expired and still with access to the plan's channel with nothing pending
\* that would remove the access.
C24_FailedRemovalRetried ==
    [][\A job \in jobs, ok \in BOOLEAN :
          LET u == job.user_id IN
          (/\ jobs' # jobs
           /\ handle_subscription_expiry(job, ok)
           /\ users[u].exists)
          => ~(/\ users'[u].status = "expired"
               /\ <<env.channels[PlanChannel(job.plan)], u>> \in members'
               /\ JobsOf(jobs', u) = {})]_vars

\* C25 (as claimed): a handler grants access or updates a user only for a
\* payment that has a payments document, for the user and the plan of that
\* document.
C25_ActivationNeedsPayment ==
    [][\A h \in Handlers :
          LET p == wh[h].body.payment_id IN
          (/\ wh'[h] # wh[h]
           /\ (users' # users \/ members' # members))
          => /\ p \in PaymentIds
             /\ payments[p].exists
             /\ payments[p].user_id = wh[h].user_id
             /\ payments[p].plan = wh[h].plan]_vars

\* C26 (as claimed): a handler whose unban succeeded finishes with the user
\* of the order id active on the plan.
C26_GrantedImpliesActive ==
    [][\A h \in Handlers :
          LET u == wh'[h].user_id IN
          (/\ wh'[h] # wh[h]
           /\ wh'[h].pc = "done"
           /\ wh'[h].unbanned)
          => /\ u \in UserIds
             /\ users'[u].exists
             /\ users'[u].status = "active"
             /\ users'[u].subscription_plan = wh'[h].plan]_vars

\* C27 (as claimed): a user that extend has made active has a plan and has
\* access to the plan's channel.
C27_ExtendedUserHasAccess ==
    [][\A u \in UserIds, d \in ExtendDays :
          (/\ extends' # extends
           /\ extend_subscription(u, d)
           /\ users'[u].exists
           /\ users'[u].status = "active")
          => /\ users'[u].subscription_plan \in Plans
             /\ <<env.channels[PlanChannel(users'[u].subscription_plan)], u>>
                   \in members']_vars

\* C28 (as claimed): /start takes a user for subscribed only if the user is
\* active with subscription_end in the future.
C28_SubscribedMeansActive ==
    \A u \in Chatters :
       AlreadySubscribed(users[u], now)
       => /\ users[u].status = "active"
          /\ fromisoformat(users[u].subscription_end) > now

====
